---- MODULE Spec2Model ----
(***************************************************************************)
(* Model of the recommender toolkit in                                     *)
(*   src/Configuration/implementation/recommenders/Recommender.py          *)
(*   src/Configuration/implementation/recommenders/bpr.py                  *)
(*                                                                         *)
(* Conventions.                                                            *)
(*  - A numpy array / python list is a TLA+ sequence; positions are        *)
(*    1-based in TLA+, the ids stored in them (users, items, row indices)  *)
(*    are the 0-based ids of the code.                                     *)
(*  - A matrix is a function [row -> [col -> value]] over 0-based ids.     *)
(*    A sparse matrix stores exactly its nonzero entries.                  *)
(*  - Numbers are integers in half-units of the float32 grid: an even      *)
(*    number is representable in float32, an odd one is a float64 value    *)
(*    that float32 cannot hold.  astype(float32) is F32.                   *)
(*  - numpy.argsort is modelled as the ascending sort that keeps equal     *)
(*    keys in index order; numpy's default sort does exactly that on       *)
(*    arrays of up to 16 elements, which covers every array of the model.  *)
(***************************************************************************)
EXTENDS Integers, Sequences, FiniteSets, TLC

\* ------------------------------------------------------------------ bounds
NUsers == 2
NItems == 3
TopKDim == 2
MaxK == 3
PDen == 4
MaxEpochs == 2
MaxBatch == 2
MaxN == 2
MaxUsers == 2
MaxPairs == 2

Users == 0 .. (NUsers - 1)
Items == 0 .. (NItems - 1)
None == "None"
\* no test matrix given yet
NoTest == [layout |-> "none", data |-> << >>]

\* ------------------------------------------------- python / numpy helpers
Min(a, b) == IF a <= b THEN a ELSE b
Max(a, b) == IF a >= b THEN a ELSE b

\* python slice index normalisation: a negative index counts from the end,
\* and the result is clamped to 0 .. n
PyIndex(i, n) == IF i < 0 THEN Max(i + n, 0) ELSE Min(i, n)

\* s[:stop]
PySliceTo(s, stop) == SubSeq(s, 1, PyIndex(stop, Len(s)))

\* s[start:]
PySliceFrom(s, start) == SubSeq(s, PyIndex(start, Len(s)) + 1, Len(s))

\* s[::-1], numpy.flip
Flip(s) == [p \in 1 .. Len(s) |-> s[Len(s) + 1 - p]]

SeqToSet(s) == {s[p] : p \in 1 .. Len(s)}

\* numpy.argsort over integer keys: the 0-based indices of vals in ascending
\* order of value, equal values in index order
ArgSortPos(vals, p) == Cardinality({q \in 1 .. Len(vals) :
                           vals[q] < vals[p] \/ (vals[q] = vals[p] /\ q < p)}) + 1
ArgSort(vals) == [r \in 1 .. Len(vals) |->
                    (CHOOSE p \in 1 .. Len(vals) : ArgSortPos(vals, p) = r) - 1]

\* X.astype(numpy.float32) of one value
F32(v) == IF v % 2 = 0 THEN v ELSE IF v > 0 THEN v + 1 ELSE v - 1

RECURSIVE SumSeq(_)
SumSeq(s) == IF s = << >> THEN 0 ELSE Head(s) + SumSeq(Tail(s))

\* the 0-based ids 0 .. n-1 as a sequence (numpy.arange)
ARange(n) == [p \in 1 .. n |-> p - 1]

\* s[mask]: boolean-mask indexing keeps order
RECURSIVE MaskSelect(_, _)
MaskSelect(s, mask) ==
    IF s = << >> THEN << >>
    ELSE IF Head(mask) THEN <<Head(s)>> \o MaskSelect(Tail(s), Tail(mask))
         ELSE MaskSelect(Tail(s), Tail(mask))

\* numpy.in1d(a, b, invert=inv)
In1d(a, b, inv) == [p \in 1 .. Len(a) |-> IF inv THEN a[p] \notin b ELSE a[p] \in b]

VARIABLES
    \* similarityMatrixTopK
    item_weights, k, sparse_weights_in, W_topK, topK_pc,
    \* removeTopPop
    URM_1, URM_2, percentageToRemove, topPop_ret, topPop_pc,
    \* the recommender object: Recommender fields
    URM_train,
    kind, W_sparse, normalize, W, H, B,
    URM_test, FastValidation_initialized,
    URM_test_relevantItems, URM_test_ratings,
    URM_train_user_profile, URM_train_relevantItems,
    at, exclude_seen,
    \* the test matrix the previous evaluateRecommendations call was given, and
    \* what the last call returned
    last_URM_test, ret,
    \* BPRMF_THEANO fields set by train, and the locals of train / sampleBatch
    batch_size, eligibleUsers, userSeenItems,
    epochs, n_sgd_samples, z, user_id_list, pos_item_id_list, neg_item_id_list, train_pc,
    \* evaluateRecommendationsParallel: its argument, the positions of the tasks
    \* in the order they completed, the results pool.map collects, and where
    \* the call is
    usersToEvaluate, completion, resultList, eval_pc,
    \* BPRMF_THEANO fields the AUC test reads
    _train_users, _train_items, _train_dict

topKVars == <<item_weights, k, sparse_weights_in, W_topK, topK_pc>>
topPopVars == <<URM_1, URM_2, percentageToRemove, topPop_ret, topPop_pc>>
modelVars == <<kind, W_sparse, normalize, W, H, B>>
cacheVars == <<URM_test, FastValidation_initialized, URM_test_relevantItems,
               URM_test_ratings, URM_train_user_profile, URM_train_relevantItems,
               at, exclude_seen, last_URM_test>>
trainSetVars == <<_train_users, _train_items, _train_dict>>
objVars == <<URM_train, modelVars, cacheVars, ret, trainSetVars>>
trainVars == <<batch_size, eligibleUsers, userSeenItems, epochs, n_sgd_samples, z,
               user_id_list, pos_item_id_list, neg_item_id_list, train_pc>>
evalVars == <<usersToEvaluate, completion, resultList, eval_pc>>
vars == <<topKVars, topPopVars, objVars, trainVars, evalVars>>

\* a specification that does not exercise an operation holds its variables at
\* these values
IdleTopK ==
    /\ item_weights = << >>
    /\ k = 0
    /\ sparse_weights_in = FALSE
    /\ W_topK = << >>
    /\ topK_pc = "idle"

IdleTopPop ==
    /\ URM_1 = << >>
    /\ URM_2 = << >>
    /\ percentageToRemove = 0
    /\ topPop_ret = << >>
    /\ topPop_pc = "idle"

IdleTrain ==
    /\ batch_size = 0
    /\ eligibleUsers = << >>
    /\ userSeenItems = << >>
    /\ epochs = 0
    /\ n_sgd_samples = 0
    /\ z = 0
    /\ user_id_list = << >>
    /\ pos_item_id_list = << >>
    /\ neg_item_id_list = << >>
    /\ train_pc = "idle"

IdleEval ==
    /\ usersToEvaluate = << >>
    /\ completion = << >>
    /\ resultList = << >>
    /\ eval_pc = "idle"

\* Recommender.__init__: nothing trained, nothing cached
InitObject ==
    /\ URM_train = << >>
    /\ normalize = TRUE
    /\ FastValidation_initialized = FALSE
    /\ URM_test = << >>
    /\ URM_test_relevantItems = << >>
    /\ URM_test_ratings = << >>
    /\ URM_train_user_profile = << >>
    /\ URM_train_relevantItems = << >>
    /\ at = 0
    /\ exclude_seen = FALSE
    /\ last_URM_test = NoTest
    /\ ret = [op |-> "__init__", ok |-> TRUE]
    /\ _train_users = {}
    /\ _train_items = {}
    /\ _train_dict = << >>

\* a recommender that scores by an item-item weight matrix (the Recommender
\* base class with the weights a subclass's fit sets), before fit
IdleObject ==
    /\ InitObject
    /\ kind = "similarity"
    /\ W_sparse = << >>
    /\ W = << >>
    /\ H = << >>
    /\ B = << >>

\* ------------------------------------------------- similarityMatrixTopK
TopKIdx == 0 .. (TopKDim - 1)
WeightValues == {-2, 0, 1, 2}

\* column c of a matrix as a sequence over the rows 0 .. n-1
Column(M, n, c) == [p \in 1 .. n |-> M[p - 1][c]]

\* dense branch, one column: the rows idx_sorted[:-k] are zeroed
DenseColumnTopK(col, kk) ==
    LET idx_sorted == ArgSort(col)
        not_top_k  == SeqToSet(PySliceTo(idx_sorted, 0 - kk))
    IN  [p \in 1 .. Len(col) |-> IF (p - 1) \in not_top_k THEN 0 ELSE col[p]]

\* sparse branch, one column: only the stored (nonzero) entries are sorted,
\* the entries idx_sorted[-k:] are kept and the result is built as float32
SparseColumnTopK(col, kk) ==
    LET dataRow    == MaskSelect(ARange(Len(col)), [p \in 1 .. Len(col) |-> col[p] # 0])
        dataValue  == [q \in 1 .. Len(dataRow) |-> col[dataRow[q] + 1]]
        idx_sorted == ArgSort(dataValue)
        top_k_idx  == PySliceFrom(idx_sorted, 0 - kk)
        rows       == {dataRow[top_k_idx[q] + 1] : q \in 1 .. Len(top_k_idx)}
    IN  [p \in 1 .. Len(col) |-> IF (p - 1) \in rows THEN F32(col[p]) ELSE 0]

TopKDense(M, n, kk) ==
    [r \in 0 .. (n - 1) |-> [c \in 0 .. (n - 1) |-> DenseColumnTopK(Column(M, n, c), kk)[r + 1]]]

TopKSparse(M, n, kk) ==
    [r \in 0 .. (n - 1) |-> [c \in 0 .. (n - 1) |-> SparseColumnTopK(Column(M, n, c), kk)[r + 1]]]

InitTopK ==
    /\ item_weights \in [TopKIdx -> [TopKIdx -> WeightValues]]
    /\ k \in 0 .. MaxK
    /\ sparse_weights_in \in BOOLEAN
    /\ W_topK = << >>
    /\ topK_pc = "call"
    /\ IdleTopPop
    /\ IdleObject
    /\ IdleTrain
    /\ IdleEval

similarityMatrixTopK_dense ==
    /\ topK_pc = "call"
    /\ ~sparse_weights_in
    /\ W_topK' = TopKDense(item_weights, TopKDim, k)
    /\ topK_pc' = "done"
    /\ UNCHANGED <<item_weights, k, sparse_weights_in, topPopVars, objVars, trainVars, evalVars>>

similarityMatrixTopK_sparse ==
    /\ topK_pc = "call"
    /\ sparse_weights_in
    /\ W_topK' = TopKSparse(item_weights, TopKDim, k)
    /\ topK_pc' = "done"
    /\ UNCHANGED <<item_weights, k, sparse_weights_in, topPopVars, objVars, trainVars, evalVars>>

NextTopK == similarityMatrixTopK_dense \/ similarityMatrixTopK_sparse

SpecTopK == InitTopK /\ [][NextTopK]_vars

\* --------------------------------------------------------- removeTopPop
\* the interaction matrices of the model: one stored value per (user, item),
\* 0 for an entry the sparse matrix does not store
BinaryMatrices == [Users -> [Items -> {0, 2}]]

\* an implicit-feedback matrix in which user u has seen the items 0 .. u
TrainA == [u \in Users |-> [i \in Items |-> IF i <= u THEN 2 ELSE 0]]

\* (URM_1 + URM_2) > 0 when URM_2 is given, URM_1 otherwise
PopURM(U1, U2) ==
    IF U2 = << >> THEN U1
    ELSE [u \in Users |-> [i \in Items |-> IF U1[u][i] + U2[u][i] > 0 THEN 1 ELSE 0]]

\* URM.sum(axis=0) as an array over the items
ItemPop(URM) == [p \in 1 .. NItems |-> SumSeq([q \in 1 .. NUsers |-> URM[q - 1][p - 1]])]

\* int(len(popularItemsSorted) * percentageToRemove), the percentage being
\* pNum / PDen
NumItemsToRemove_ceil(n, pNum) == (n * pNum + PDen - 1) \div PDen
NumItemsToRemove(n, pNum) == (n * pNum) \div PDen

removeTopPop(U1, U2, pNum) ==
    LET item_pop           == ItemPop(PopURM(U1, U2))
        popularItemsSorted == Flip(ArgSort(item_pop))
        numItemsToRemove   == NumItemsToRemove(Len(popularItemsSorted), pNum)
        itemMask           == In1d(ARange(Len(popularItemsSorted)),
                                   SeqToSet(PySliceTo(popularItemsSorted, numItemsToRemove)),
                                   TRUE)
        itemMappings       == MaskSelect(ARange(Len(popularItemsSorted)), itemMask)
        removedItems       == MaskSelect(ARange(Len(popularItemsSorted)),
                                         [p \in 1 .. Len(itemMask) |-> ~itemMask[p]])
    IN  [URM          |-> [u \in Users |-> MaskSelect([p \in 1 .. NItems |-> U1[u][p - 1]], itemMask)],
         itemMappings |-> itemMappings,
         removedItems |-> removedItems]

InitTopPop ==
    /\ URM_1 \in BinaryMatrices
    /\ URM_2 \in {<< >>, TrainA}
    /\ percentageToRemove \in 0 .. PDen
    /\ topPop_ret = << >>
    /\ topPop_pc = "call"
    /\ IdleTopK
    /\ IdleObject
    /\ IdleTrain
    /\ IdleEval

removeTopPop_call ==
    /\ topPop_pc = "call"
    /\ topPop_ret' = removeTopPop(URM_1, URM_2, percentageToRemove)
    /\ topPop_pc' = "done"
    /\ UNCHANGED <<URM_1, URM_2, percentageToRemove, topKVars, objVars, trainVars, evalVars>>

NextTopPop == removeTopPop_call

SpecTopPop == InitTopPop /\ [][NextTopPop]_vars

\* ------------------------------------------------------ sparse matrices
\* check_matrix(X, format, dtype=float32): the layout changes, the stored
\* entries stay, every value is cast to float32
check_matrix(X) == [u \in DOMAIN X |-> [i \in DOMAIN X[u] |-> F32(X[u][i])]]

\* X[user_id].indices of a CSR matrix: the columns of the stored entries of
\* the row, ascending
RowIndices(X, u) == MaskSelect(ARange(NItems), [p \in 1 .. NItems |-> X[u][p - 1] # 0])

\* X[user_id].nnz and X.nnz
RowNnz(X, u) == Len(RowIndices(X, u))
Nnz(X) == SumSeq([q \in 1 .. Cardinality(DOMAIN X) |-> RowNnz(X, q - 1)])

\* training matrices: TrainA above; TrainB holds float64 ratings that float32
\* cannot represent and leaves user 0 without interactions; in TrainFull user
\* 0 has seen the whole catalog; TrainEmpty stores nothing
TrainB == [u \in Users |-> [i \in Items |-> IF u # 0 /\ i = (u + 1) % NItems THEN 1 ELSE 0]]
TrainFull == [u \in Users |-> [i \in Items |-> IF u = 0 \/ i = 0 THEN 2 ELSE 0]]
TrainEmpty == [u \in Users |-> [i \in Items |-> 0]]
TrainMatrices == {TrainA, TrainB, TrainFull, TrainEmpty}

\* ------------------------------------------------- BPRMF_THEANO.train
\* factor states of a BPR model (rank 1): the draw of __init__, and one that
\* SGD steps may leave
FactorsInit == [W |-> [u \in Users |-> 1], H |-> [i \in Items |-> i + 1],
                B |-> [i \in Items |-> 0]]
FactorsB == [W |-> [u \in Users |-> 1 - 2 * u], H |-> [i \in Items |-> i],
             B |-> [i \in Items |-> IF i = 0 THEN 1 ELSE 0]]
FactorStates == {FactorsInit, FactorsB}

\* initializeFastSampling: the users with a stored interaction, and their
\* seen items
EligibleUsers(X) == MaskSelect(ARange(NUsers), [p \in 1 .. NUsers |-> RowNnz(X, p - 1) > 0])
UserSeenItems(X) == [u \in SeqToSet(EligibleUsers(X)) |-> RowIndices(X, u)]

\* BPRMF_THEANO.__init__
InitBPR ==
    /\ InitObject
    /\ kind = "BPRMF_THEANO"
    /\ W_sparse = << >>
    /\ W = FactorsInit.W
    /\ H = FactorsInit.H
    /\ B = FactorsInit.B

InitTrain ==
    /\ InitBPR
    /\ batch_size = 0
    /\ eligibleUsers = << >>
    /\ userSeenItems = << >>
    /\ epochs = 0
    /\ n_sgd_samples = 0
    /\ z = 0
    /\ user_id_list = << >>
    /\ pos_item_id_list = << >>
    /\ neg_item_id_list = << >>
    /\ train_pc = "call"
    /\ IdleTopK
    /\ IdleTopPop
    /\ IdleEval

\* train, lines 205-213: up to the loop
train_call ==
    /\ train_pc = "call"
    /\ \E train_data \in TrainMatrices, ep \in 0 .. MaxEpochs, bs \in 1 .. MaxBatch :
          LET data == check_matrix(train_data)
          IN  /\ URM_train' = data
              /\ ret' = [op |-> "train", ok |-> TRUE]
              /\ epochs' = ep
              /\ n_sgd_samples' = ep * Nnz(data)
              /\ batch_size' = bs
              /\ eligibleUsers' = EligibleUsers(data)
              /\ userSeenItems' = UserSeenItems(data)
    /\ z' = 0
    /\ train_pc' = "loop"
    /\ UNCHANGED <<user_id_list, pos_item_id_list, neg_item_id_list, topKVars, topPopVars,
                   modelVars, cacheVars, evalVars, trainSetVars>>

\* the loop condition of train
TrainLoopCondition(zz, bs, n) == (zz + 1) * bs < n

\* the loop is entered: sampleBatch starts by drawing batch_size users
sampleBatch_users ==
    /\ train_pc = "loop"
    /\ TrainLoopCondition(z, batch_size, n_sgd_samples)
    /\ user_id_list' \in [1 .. batch_size -> SeqToSet(eligibleUsers)]
    /\ pos_item_id_list' = << >>
    /\ neg_item_id_list' = << >>
    /\ train_pc' = "pos"
    /\ UNCHANGED <<objVars, batch_size, eligibleUsers, userSeenItems, epochs,
                   n_sgd_samples, z, topKVars, topPopVars, evalVars>>

\* the user the loop of sampleBatch is at
CurrentUser == user_id_list[Len(neg_item_id_list) + 1]

PositiveCandidates(u) == SeqToSet(userSeenItems[u])

sampleBatch_pos ==
    /\ train_pc = "pos"
    /\ \E pos_item \in PositiveCandidates(CurrentUser) :
          pos_item_id_list' = Append(pos_item_id_list, pos_item)
    /\ train_pc' = "neg"
    /\ UNCHANGED <<objVars, batch_size, eligibleUsers, userSeenItems, epochs,
                   n_sgd_samples, z, user_id_list, neg_item_id_list, topKVars, topPopVars, evalVars>>

\* neg_item_id not in self.userSeenItems[user_id]
NegItemAccepted_any(u, neg_item_id) == TRUE
NegItemAccepted_none(u, neg_item_id) == FALSE
NegItemAccepted(u, neg_item_id) == neg_item_id \notin SeqToSet(userSeenItems[u])

\* one draw of the rejection loop that ends it
sampleBatch_neg_selected ==
    /\ train_pc = "neg"
    /\ \E neg_item_id \in Items :
          /\ NegItemAccepted(CurrentUser, neg_item_id)
          /\ neg_item_id_list' = Append(neg_item_id_list, neg_item_id)
    /\ train_pc' = IF Len(neg_item_id_list) + 1 = Len(user_id_list) THEN "batch" ELSE "pos"
    /\ UNCHANGED <<objVars, batch_size, eligibleUsers, userSeenItems, epochs,
                   n_sgd_samples, z, user_id_list, pos_item_id_list, topKVars, topPopVars, evalVars>>

\* one draw of the rejection loop that hits a seen item: the loop goes on
sampleBatch_neg_retry ==
    /\ train_pc = "neg"
    /\ \E neg_item_id \in Items : ~NegItemAccepted(CurrentUser, neg_item_id)
    /\ UNCHANGED vars

\* train_model on the batch sampleBatch returned, and z += 1
train_model_step ==
    /\ train_pc = "batch"
    /\ z' = z + 1
    /\ train_pc' = "loop"
    /\ UNCHANGED <<objVars, batch_size, eligibleUsers, userSeenItems, epochs,
                   n_sgd_samples, user_id_list, pos_item_id_list, neg_item_id_list,
                   topKVars, topPopVars, evalVars>>

train_return ==
    /\ train_pc = "loop"
    /\ ~TrainLoopCondition(z, batch_size, n_sgd_samples)
    /\ train_pc' = "done"
    /\ UNCHANGED <<objVars, batch_size, eligibleUsers, userSeenItems, epochs,
                   n_sgd_samples, z, user_id_list, pos_item_id_list, neg_item_id_list,
                   topKVars, topPopVars, evalVars>>

NextTrain ==
    \/ train_call
    \/ sampleBatch_users
    \/ sampleBatch_pos
    \/ sampleBatch_neg_selected
    \/ sampleBatch_neg_retry
    \/ train_model_step
    \/ train_return

SpecTrain == InitTrain /\ [][NextTrain]_vars

\* train runs in one thread and always takes its next step.  A draw of the
\* rejection loop that hits a seen item leaves the state as it is, so under
\* weak fairness a draw that can be accepted is eventually accepted: the
\* random draws are fair.
SpecTrainFair == InitTrain /\ [][NextTrain]_vars /\ WF_vars(NextTrain)

\* ------------------------------------------------------- scoring state
\* A score is a fraction <<numerator, denominator>> with a positive
\* denominator: normalised scores are quotients.
Score(num, den) == IF den < 0 THEN <<0 - num, 0 - den>> ELSE <<num, den>>
ScoreLess(a, b) == a[1] * b[2] < b[1] * a[2]
ScoreEq(a, b) == a[1] * b[2] = b[1] * a[2]

\* numpy.argsort over scores
ArgSortScorePos(vals, p) ==
    Cardinality({q \in 1 .. Len(vals) :
        ScoreLess(vals[q], vals[p]) \/ (ScoreEq(vals[q], vals[p]) /\ q < p)}) + 1
ArgSortScores(vals) ==
    [r \in 1 .. Len(vals) |->
        (CHOOSE p \in 1 .. Len(vals) : ArgSortScorePos(vals, p) = r) - 1]

\* item-item weight matrices a similarity model's fit leaves in W_sparse:
\* every other item equally similar; and an asymmetric one with negative
\* weights
WSimA == [j \in Items |-> [i \in Items |-> IF i = j THEN 0 ELSE 2]]
WSimB == [j \in Items |-> [i \in Items |-> 2 * (i - j)]]
WeightMatrices == {WSimA, WSimB}

\* user_profile.dot(W_sparse) for one item
Dot(profile, Wm, i) == SumSeq([q \in 1 .. NItems |-> profile[q - 1] * Wm[q - 1][i]])

\* rated = user_profile.copy(); rated.data = ones
Rated(profile) == [j \in Items |-> IF profile[j] # 0 THEN 1 ELSE 0]

\* den[abs(den) < 1e-6] = 1.0
ClampDen(den) == IF den = 0 THEN 1 ELSE den

\* Recommender.recommend, lines 593-613: the score array of a user profile
SimilarityScores(profile) ==
    [p \in 1 .. NItems |->
        IF normalize
        THEN Score(Dot(profile, W_sparse, p - 1),
                   ClampDen(Dot(Rated(profile), W_sparse, p - 1)))
        ELSE Score(Dot(profile, W_sparse, p - 1), 1)]

\* BPRMF_THEANO.predictions
predictions(user_index) ==
    [p \in 1 .. NItems |-> Score(W[user_index] * H[p - 1] + B[p - 1], 1)]

\* scores.argsort() followed by numpy.flip
RankDescending_noflip(scores) == ArgSortScores(scores)
RankDescending(scores) == Flip(ArgSortScores(scores))

\* Recommender._filter_seen
filter_seen(user_id, ranking) ==
    MaskSelect(ranking, In1d(ranking, SeqToSet(URM_train_relevantItems[user_id]), TRUE))

\* ranking[:n]; n = None keeps everything
Truncate(ranking, n_given, n) == IF n_given THEN PySliceTo(ranking, n) ELSE ranking

\* ---------------------------------------------------- test matrices
\* A test matrix is given in a sparse layout.  TestB holds the ratings of
\* TestA as float64 values that float32 cannot represent; TestShort has one
\* row less; in TestTwo user 0 has two test items and the others none.
TestAData == [u \in Users |-> [i \in Items |-> IF i = NItems - 1 - u THEN 2 ELSE 0]]
TestBData == [u \in Users |-> [i \in Items |-> IF i = NItems - 1 - u THEN 1 ELSE 0]]
TestShortData == [u \in 0 .. (NUsers - 2) |-> TestAData[u]]
TestTwoData == [u \in Users |-> [i \in Items |-> IF u = 0 /\ i > 0 THEN 2 ELSE 0]]
TestMatrices ==
    {[layout |-> "csr", data |-> TestAData], [layout |-> "csc", data |-> TestAData],
     [layout |-> "csr", data |-> TestBData],
     [layout |-> "csr", data |-> TestShortData],
     [layout |-> "csr", data |-> TestTwoData]}

\* two matrices hold the same numbers in the same shape
SameMatrix(X, Y) ==
    /\ DOMAIN X = DOMAIN Y
    /\ \A u \in DOMAIN X : \A i \in Items : X[u][i] = Y[u][i]

\* areURMequals: either is None, the shapes differ, or (URM1 - URM2) stores
\* a nonzero
areURMequals(URM1, URM2) ==
    IF URM1 = << >> \/ URM2 = << >> THEN FALSE
    ELSE IF DOMAIN URM1 # DOMAIN URM2 THEN FALSE
    ELSE \A u \in DOMAIN URM1 : \A i \in Items : URM1[u][i] - URM2[u][i] = 0

\* X[user_id].indices and X[user_id].data of the matrix evaluateRecommendations
\* was given: a CSR row holds its column indices; the row of a CSC matrix is
\* a 1 x n CSC matrix whose indices are row indices, all 0
TestRowIndices(T, u) ==
    IF T.layout = "csr" THEN RowIndices(T.data, u)
    ELSE [q \in 1 .. RowNnz(T.data, u) |-> 0]
TestRowData(T, u) ==
    [q \in 1 .. RowNnz(T.data, u) |-> T.data[u][RowIndices(T.data, u)[q]]]

\* ------------------------------------------------------------ the object
InitSpec ==
    /\ IdleObject \/ InitBPR
    /\ IdleTopK
    /\ IdleTopPop
    /\ IdleTrain
    /\ IdleEval

Idle == train_pc = "idle" /\ eval_pc = "idle"

\* fit of a similarity model: it stores the training matrix and leaves an
\* item-item weight matrix
fit_similarity ==
    /\ Idle
    /\ kind = "similarity"
    /\ \E train_data \in {TrainA, TrainB}, Wm \in WeightMatrices, nrm \in BOOLEAN :
          /\ URM_train' = train_data
          /\ W_sparse' = Wm
          /\ normalize' = nrm
    /\ ret' = [op |-> "fit", ok |-> TRUE]
    /\ UNCHANGED <<kind, W, H, B, cacheVars, trainVars, topKVars, topPopVars, evalVars, trainSetVars>>

\* BPRMF_THEANO.train as one step: the fields it sets; the SGD steps, when
\* there are any, leave some factor state
train_whole ==
    /\ Idle
    /\ kind = "BPRMF_THEANO"
    /\ \E train_data \in {TrainA, TrainB}, ep \in 0 .. MaxEpochs, bs \in {MaxBatch},
          f \in FactorStates :
          LET data == check_matrix(train_data)
              steps == TrainLoopCondition(0, bs, ep * Nnz(data))
          IN  /\ URM_train' = data
              /\ batch_size' = bs
              /\ eligibleUsers' = EligibleUsers(data)
              /\ userSeenItems' = UserSeenItems(data)
              /\ W' = IF steps THEN f.W ELSE W
              /\ H' = IF steps THEN f.H ELSE H
              /\ B' = IF steps THEN f.B ELSE B
    /\ ret' = [op |-> "train", ok |-> TRUE]
    /\ UNCHANGED <<kind, W_sparse, normalize, cacheVars, epochs, n_sgd_samples, z,
                   user_id_list, pos_item_id_list, neg_item_id_list, train_pc,
                   topKVars, topPopVars, evalVars, trainSetVars>>

\* initializeURMDictionary(URM_train, URM_test): one entry per row of URM_test
TestRelevantItems(T) == [u \in DOMAIN T.data |-> TestRowIndices(T, u)]
TestRatings(T) == [u \in DOMAIN T.data |-> TestRowData(T, u)]
TrainUserProfile(X, T) == [u \in DOMAIN T.data |-> X[u]]
TrainRelevantItems(X, T) == [u \in DOMAIN T.data |-> RowIndices(X, u)]

\* the condition under which evaluateRecommendations rebuilds the cache
Recompute(T) ==
    IF FastValidation_initialized THEN ~areURMequals(URM_test, T.data) ELSE TRUE

MustInitialize(fastValidation, T) == ~fastValidation \/ Recompute(T)

\* evaluateRecommendations, lines 169-222.  The arguments minRatingsPerUser,
\* mode and filterTopPop are never read: the dispatch on mode is commented
\* out, so whatever the mode the call falls off its end and returns None.
evaluateRecommendations ==
    /\ Idle
    /\ URM_train # << >>
    /\ \E T \in TestMatrices, at_in \in {MaxN}, excl \in BOOLEAN, fastValidation \in BOOLEAN :
       \E train \in {check_matrix(URM_train)}, build \in {MustInitialize(fastValidation, T)} :
          /\ URM_test' = check_matrix(T.data)
          /\ URM_train' = train
          /\ at' = at_in
          /\ exclude_seen' = excl
          /\ FastValidation_initialized' = (FastValidation_initialized \/ build)
          /\ URM_test_relevantItems' =
                 IF build THEN TestRelevantItems(T) ELSE URM_test_relevantItems
          /\ URM_test_ratings' = IF build THEN TestRatings(T) ELSE URM_test_ratings
          /\ URM_train_user_profile' =
                 IF build THEN TrainUserProfile(train, T) ELSE URM_train_user_profile
          /\ URM_train_relevantItems' =
                 IF build THEN TrainRelevantItems(train, T) ELSE URM_train_relevantItems
          /\ last_URM_test' = T
          /\ ret' = [op |-> "evaluateRecommendations", ok |-> TRUE, value |-> << >>,
                     fastValidation |-> fastValidation,
                     rebuilt |-> build,
                     first |-> ~FastValidation_initialized,
                     unchanged |-> SameMatrix(last_URM_test.data, T.data)]
    /\ UNCHANGED <<modelVars, trainVars, topKVars, topPopVars, evalVars, trainSetVars>>

\* evaluateRecommendations before any fit: self.URM_test is assigned, then
\* check_matrix(None) raises
evaluateRecommendations_untrained ==
    /\ Idle
    /\ URM_train = << >>
    /\ \E T \in TestMatrices :
          /\ URM_test' = check_matrix(T.data)
          /\ last_URM_test' = T
    /\ ret' = [op |-> "evaluateRecommendations", ok |-> FALSE]
    /\ UNCHANGED <<URM_train, modelVars, FastValidation_initialized, URM_test_relevantItems,
                   URM_test_ratings, URM_train_user_profile, URM_train_relevantItems,
                   at, exclude_seen, trainVars, topKVars, topPopVars, evalVars, trainSetVars>>

\* Recommender.recommend for a user the cache holds
recommend_ranking(user_id, n_given, n, excl) ==
    LET scores   == SimilarityScores(URM_train_user_profile[user_id])
        ranking  == RankDescending(scores)
        filtered == IF excl THEN filter_seen(user_id, ranking) ELSE ranking
    IN  Truncate(filtered, n_given, n)

\* BPRMF_THEANO.top_predictions
top_predictions(user_index, n_given, topn, excl) ==
    LET ranking  == RankDescending(predictions(user_index))
        filtered == IF excl THEN filter_seen(user_index, ranking) ELSE ranking
    IN  Truncate(filtered, n_given, topn)

\* the calls of recommend that raise: the cache has no entry for the user
\* (never built, or built for fewer users), filterTopPop is requested although
\* filterTopPop_ItemsID is never set, or the similarity model is not fitted
recommend_raises(user_id, excl, filterTopPop) ==
    IF kind = "BPRMF_THEANO"
    THEN excl /\ user_id \notin DOMAIN URM_train_relevantItems
    ELSE \/ user_id \notin DOMAIN URM_train_user_profile
         \/ W_sparse = << >>
         \/ filterTopPop

recommend ==
    /\ Idle
    /\ \E user_id \in Users, n_given \in BOOLEAN, n \in 0 .. MaxN, excl \in BOOLEAN,
          filterTopPop \in BOOLEAN :
          /\ n_given \/ n = 0
          /\ kind = "BPRMF_THEANO" => ~filterTopPop
          /\ ~recommend_raises(user_id, excl, filterTopPop)
          /\ ret' = [op |-> "recommend", ok |-> TRUE, user_id |-> user_id,
                     n_given |-> n_given, n |-> n, exclude_seen |-> excl,
                     value |-> IF kind = "BPRMF_THEANO"
                               THEN top_predictions(user_id, n_given, n, excl)
                               ELSE recommend_ranking(user_id, n_given, n, excl)]
    /\ UNCHANGED <<URM_train, modelVars, cacheVars, trainVars, topKVars, topPopVars, evalVars,
                   trainSetVars>>

recommend_error ==
    /\ Idle
    /\ \E user_id \in Users, excl \in BOOLEAN, filterTopPop \in BOOLEAN :
          /\ kind = "BPRMF_THEANO" => ~filterTopPop
          /\ recommend_raises(user_id, excl, filterTopPop)
          /\ ret' = [op |-> "recommend", ok |-> FALSE, exclude_seen |-> excl]
    /\ UNCHANGED <<URM_train, modelVars, cacheVars, trainVars, topKVars, topPopVars, evalVars,
                   trainSetVars>>

Next ==
    \/ fit_similarity
    \/ train_whole
    \/ evaluateRecommendations
    \/ evaluateRecommendations_untrained
    \/ recommend
    \/ recommend_error

Spec == InitSpec /\ [][Next]_vars

\* ------------------------------------------------------------ evaluation
\* the lists of users an evaluation is called with: any users, in any order,
\* possibly repeated
UserLists == UNION {[1 .. n -> Users] : n \in 0 .. MaxUsers}

\* the keys of results_run
ResultKeys == {"AUC", "precision", "recall", "map", "NDCG", "MRR"}

\* sums and averages of metric values, as fractions; the code adds the
\* per-user values in the order of the list
ScoreAdd(a, b) == <<a[1] * b[2] + b[1] * a[2], a[2] * b[2]>>
ScoreQuot(a, b) == IF b[1] = 0 THEN <<0, 1>> ELSE Score(a[1] * b[2], a[2] * b[1])

RECURSIVE SumScores(_)
SumScores(s) == IF s = << >> THEN <<0, 1>> ELSE ScoreAdd(Head(s), SumScores(Tail(s)))

\* the module metrics: the six ranking metrics of one recommendation list.
\* is_relevant is aligned with the list; a metric whose denominator vanishes
\* is 0.  NDCG uses the relevance weights of the relevant items (the later
\* weight when an item id is repeated), a gain linear in the weight and the
\* discount 1 / rank.
UserMetrics(recommended_items, relevant_items, relevance, at_) ==
    LET n           == Len(recommended_items)
        is_relevant == In1d(recommended_items, SeqToSet(relevant_items), FALSE)
        hit(p)      == IF is_relevant[p] THEN 1 ELSE 0
        hits        == SumSeq([p \in 1 .. n |-> hit(p)])
        ordered  == Cardinality({pq \in (1 .. n) \X (1 .. n) :
                           is_relevant[pq[1]] /\ ~is_relevant[pq[2]] /\ pq[1] < pq[2]})
        it2rel(it)  == IF it \in SeqToSet(relevant_items)
                       THEN relevance[CHOOSE q \in 1 .. Len(relevant_items) :
                                /\ relevant_items[q] = it
                                /\ \A r \in (q + 1) .. Len(relevant_items) :
                                       relevant_items[r] # it]
                       ELSE 0
        dcg(scores) == SumScores([p \in 1 .. Len(scores) |-> <<scores[p], p>>])
        ranked      == PySliceTo(recommended_items, at_)
        ideal       == Flip([r \in 1 .. Len(relevance) |-> relevance[ArgSort(relevance)[r] + 1]])
    IN  [key \in ResultKeys |->
            CASE key = "AUC" -> ScoreQuot(<<ordered, 1>>, <<hits * (n - hits), 1>>)
              [] key = "precision" -> ScoreQuot(<<hits, 1>>, <<n, 1>>)
              [] key = "recall" -> ScoreQuot(<<hits, 1>>, <<Len(relevant_items), 1>>)
              [] key = "map" ->
                     ScoreQuot(SumScores([p \in 1 .. n |->
                                   <<hit(p) * SumSeq([q \in 1 .. p |-> hit(q)]), p>>]),
                               <<Min(Len(relevant_items), n), 1>>)
              [] key = "MRR" ->
                     IF hits = 0 THEN <<0, 1>>
                     ELSE <<1, CHOOSE p \in 1 .. n :
                                   is_relevant[p] /\ \A q \in 1 .. (p - 1) : ~is_relevant[q]>>
              [] key = "NDCG" ->
                     ScoreQuot(dcg([p \in 1 .. Len(ranked) |-> it2rel(ranked[p])]),
                               dcg(ideal))]

\* the sums divided by n_eval, 0.0 each when no user was evaluated
AverageMetrics(results) ==
    LET n_eval == Len(results)
    IN  [key \in ResultKeys |->
            IF n_eval > 0
            THEN ScoreQuot(SumScores([p \in 1 .. n_eval |-> results[p][key]]), <<n_eval, 1>>)
            ELSE <<0, 1>>]

SameMetrics(a, b) == \A key \in ResultKeys : ScoreEq(a[key], b[key])

\* the recommend call of the evaluation loops: recommend(user_id=test_user,
\* exclude_seen=self.exclude_seen, n=self.at, filterTopPop=self.filterTopPop).
\* BPRMF_THEANO.recommend takes no filterTopPop argument, so on a BPR model
\* the call raises TypeError; filterTopPop stays False on the other models.
EvalRecommendRaises(test_user) ==
    kind = "BPRMF_THEANO" \/ recommend_raises(test_user, exclude_seen, FALSE)

\* the metrics of one user, given the relevant items the caller looked up
\* (the ranking is computed once, then handed to the metrics)
EvaluateUser(test_user, relevant_items) ==
    CHOOSE m \in {UserMetrics(recommended_items, relevant_items,
                              URM_test_ratings[test_user], at) :
                     recommended_items \in
                         {recommend_ranking(test_user, TRUE, at, exclude_seen)}} : TRUE

\* evaluateRecommendationsSequential: relevant items come from the cache
SequentialRaises(users) ==
    \E p \in 1 .. Len(users) :
        users[p] \notin DOMAIN URM_test_relevantItems \/ EvalRecommendRaises(users[p])

SequentialResult(users) ==
    AverageMetrics([p \in 1 .. Len(users) |->
                       EvaluateUser(users[p], URM_test_relevantItems[users[p]])])

evaluateRecommendationsSequential ==
    /\ Idle
    /\ \E users \in UserLists :
          /\ ~SequentialRaises(users)
          /\ ret' = [op |-> "evaluateRecommendationsSequential", ok |-> TRUE,
                     users |-> users, value |-> SequentialResult(users)]
    /\ UNCHANGED <<URM_train, modelVars, cacheVars, trainVars, topKVars, topPopVars, evalVars,
                   trainSetVars>>

evaluateRecommendationsSequential_error ==
    /\ Idle
    /\ \E users \in UserLists : SequentialRaises(users)
    /\ ret' = [op |-> "evaluateRecommendationsSequential", ok |-> FALSE]
    /\ UNCHANGED <<URM_train, modelVars, cacheVars, trainVars, topKVars, topPopVars, evalVars,
                   trainSetVars>>

\* evaluateOneUser, run by a pool worker: relevant items come from
\* self.URM_test, the ratings from the cache
EvaluateOneUserRaises(test_user) ==
    \/ test_user \notin DOMAIN URM_test
    \/ EvalRecommendRaises(test_user)
    \/ test_user \notin DOMAIN URM_test_ratings

evaluateOneUser(test_user) ==
    EvaluateUser(test_user, RowIndices(URM_test, test_user))

\* the tasks of pool.map that have not completed
PendingTasks == (1 .. Len(usersToEvaluate)) \ SeqToSet(completion)

\* evaluateRecommendationsParallel up to pool.map: one task per user; the call
\* has returned nothing yet
evaluateRecommendationsParallel_map ==
    /\ Idle
    /\ usersToEvaluate' \in UserLists
    /\ completion' = << >>
    /\ resultList' = << >>
    /\ eval_pc' = "pool"
    /\ ret' = [op |-> "evaluateRecommendationsParallel", ok |-> FALSE]
    /\ UNCHANGED <<URM_train, modelVars, cacheVars, trainVars, topKVars, topPopVars, trainSetVars>>

\* a task completes, in any order; pool.map files its result at the position
\* of its user in the list
evaluateOneUser_task ==
    /\ eval_pc = "pool"
    /\ \E p \in PendingTasks :
          /\ ~EvaluateOneUserRaises(usersToEvaluate[p])
          /\ resultList' = resultList @@ (p :> evaluateOneUser(usersToEvaluate[p]))
          /\ completion' = Append(completion, p)
    /\ UNCHANGED <<objVars, trainVars, topKVars, topPopVars, usersToEvaluate, eval_pc>>

\* a task raises: pool.map raises in the caller
evaluateOneUser_raise ==
    /\ eval_pc = "pool"
    /\ \E p \in PendingTasks : EvaluateOneUserRaises(usersToEvaluate[p])
    /\ ret' = [op |-> "evaluateRecommendationsParallel", ok |-> FALSE]
    /\ usersToEvaluate' = << >>
    /\ completion' = << >>
    /\ resultList' = << >>
    /\ eval_pc' = "idle"
    /\ UNCHANGED <<URM_train, modelVars, cacheVars, trainVars, topKVars, topPopVars, trainSetVars>>

\* pool.map returned: the results are summed in list order and averaged
evaluateRecommendationsParallel_reduce ==
    /\ eval_pc = "pool"
    /\ PendingTasks = {}
    /\ ret' = [op |-> "evaluateRecommendationsParallel", ok |-> TRUE,
               users |-> usersToEvaluate, completion |-> completion,
               value |-> AverageMetrics([p \in 1 .. Len(usersToEvaluate) |-> resultList[p]])]
    /\ usersToEvaluate' = << >>
    /\ completion' = << >>
    /\ resultList' = << >>
    /\ eval_pc' = "idle"
    /\ UNCHANGED <<URM_train, modelVars, cacheVars, trainVars, topKVars, topPopVars, trainSetVars>>

\* evaluateRecommendationsRandomEquivalent_oneUser raises: no cache entry for
\* the user, no W_sparse (a BPR model has none), or random.sample is asked
\* for more items than unseenItems holds.  unseenItems is the catalog minus
\* the user's test items only: the union with the training items is discarded.
RandomEquivalentOneUserRaises(test_user, numRandomItems) ==
    \/ test_user \notin DOMAIN URM_test_relevantItems
    \/ kind = "BPRMF_THEANO"
    \/ W_sparse = << >>
    \/ /\ URM_test_relevantItems[test_user] # << >>
       /\ numRandomItems >
              Cardinality(Items \ SeqToSet(URM_test_relevantItems[test_user]))

\* hitCount of one user: numpy.where returns a 1-tuple, so len(item_position)
\* is 1 and every test item of the user adds one
UserHits_catalog(test_user) == NItems
UserHits(test_user) == Len(URM_test_relevantItems[test_user])

\* ranking[0:100]
TopCandidates == 100

\* unseenItems of one user: the catalog minus the user's test items (the
\* union with the training items is computed and dropped)
UnseenItems(test_user) == Items \ SeqToSet(URM_test_relevantItems[test_user])

\* random.sample(unseenItems, numRandomItems), once per test item of the user
RandomSamples(test_user, numRandomItems) ==
    [1 .. Len(URM_test_relevantItems[test_user]) ->
        {S \in SUBSET UnseenItems(test_user) : Cardinality(S) = numRandomItems}]

\* the loop of evaluateRecommendationsRandomEquivalent_oneUser over the test
\* items: the ranking is restricted again at every item (it keeps shrinking),
\* item_position is the 1-tuple numpy.where returns, and hit is what the
\* item adds to hitCount
RECURSIVE RandomEquivalentLoop(_, _, _)
RandomEquivalentLoop(ranking, test_items, samples) ==
    IF test_items = << >> THEN << >>
    ELSE LET test_item == Head(test_items)
             other_items == Head(samples) \union {test_item}
             restricted == MaskSelect(ranking, In1d(ranking, other_items, FALSE))
             item_position ==
                 <<MaskSelect(ARange(Len(restricted)),
                              [p \in 1 .. Len(restricted) |-> restricted[p] = test_item])>>
         IN  <<[test_item |-> test_item, other_items |-> other_items,
                ranking |-> restricted,
                hit |-> IF Len(item_position) > 0 THEN 1 ELSE 0]>>
             \o RandomEquivalentLoop(restricted, Tail(test_items), Tail(samples))

\* evaluateRecommendationsRandomEquivalent_oneUser for a user that does not
\* raise: the top candidates by raw score, then the loop
RandomEquivalent_oneUser(test_user, samples) ==
    LET user_profile == URM_train_user_profile[test_user]
        scores == [p \in 1 .. NItems |-> Score(Dot(user_profile, W_sparse, p - 1), 1)]
        ranking == SubSeq(RankDescending(scores), 1, Min(TopCandidates, NItems))
    IN  RandomEquivalentLoop(ranking, URM_test_relevantItems[test_user], samples)

\* the users processed before the first one that raises (all when none does)
RandomEquivalentProcessed(users, numRandomItems) ==
    SubSeq(users, 1,
           Cardinality({p \in 1 .. Len(users) :
               \A q \in 1 .. p : ~RandomEquivalentOneUserRaises(users[q], numRandomItems)}))

\* evaluateRecommendationsRandomEquivalent.  The random items only thin out
\* the local ranking, which decides nothing; the hit counter it resets and
\* reads back is reported with the result.  The call raises when a user
\* raises, when no test matrix was ever given, and on the division when the
\* test matrix stores nothing.
evaluateRecommendationsRandomEquivalent ==
    /\ Idle
    /\ \E users \in UserLists, numRandomItems \in {1, NItems} :
       \E done \in {RandomEquivalentProcessed(users, numRandomItems)} :
       \E hitCount \in {SumSeq([p \in 1 .. Len(done) |-> UserHits(done[p])])} :
          /\ ret' = IF done = users /\ Nnz(URM_test) # 0
                    THEN [op |-> "evaluateRecommendationsRandomEquivalent", ok |-> TRUE,
                          users |-> users, numRandomItems |-> numRandomItems,
                          evaluateRecommendationsRandomEquivalent_hit |-> hitCount,
                          value |-> [key \in ResultKeys |->
                                        IF key = "recall"
                                        THEN <<hitCount, Nnz(URM_test)>>
                                        ELSE <<0, 1>>]]
                    ELSE [op |-> "evaluateRecommendationsRandomEquivalent", ok |-> FALSE]
    /\ UNCHANGED <<URM_train, modelVars, cacheVars, trainVars, topKVars, topPopVars,
                   usersToEvaluate, completion, resultList, eval_pc, trainSetVars>>

NextEval ==
    \/ fit_similarity
    \/ train_whole
    \/ evaluateRecommendations
    \/ evaluateRecommendationsSequential
    \/ evaluateRecommendationsSequential_error
    \/ evaluateRecommendationsParallel_map
    \/ evaluateOneUser_task
    \/ evaluateOneUser_raise
    \/ evaluateRecommendationsParallel_reduce

SpecEval == InitSpec /\ [][NextEval]_vars

NextRandomEquivalent ==
    \/ fit_similarity
    \/ train_whole
    \/ evaluateRecommendations
    \/ evaluateRecommendationsRandomEquivalent

SpecRandomEquivalent == InitSpec /\ [][NextRandomEquivalent]_vars

\* one call of evaluateRecommendationsRandomEquivalent_oneUser made by the
\* loop of evaluateRecommendationsRandomEquivalent, which has set
\* self.numRandomItems: the locals of the call and what it adds to the hit
\* counter
evaluateRecommendationsRandomEquivalent_oneUser ==
    /\ Idle
    /\ \E test_user \in Users, numRandomItems \in {1, NItems} :
          /\ ~RandomEquivalentOneUserRaises(test_user, numRandomItems)
          /\ \E samples \in RandomSamples(test_user, numRandomItems) :
             \E loop \in {RandomEquivalent_oneUser(test_user, samples)} :
                ret' = [op |-> "evaluateRecommendationsRandomEquivalent_oneUser",
                        ok |-> TRUE, test_user |-> test_user,
                        numRandomItems |-> numRandomItems, loop |-> loop,
                        hitCount |-> SumSeq([q \in 1 .. Len(loop) |-> loop[q].hit])]
    /\ UNCHANGED <<URM_train, modelVars, cacheVars, trainVars, topKVars, topPopVars, evalVars,
                   trainSetVars>>

NextRandomEquivalentOneUser ==
    \/ NextRandomEquivalent
    \/ evaluateRecommendationsRandomEquivalent_oneUser

SpecRandomEquivalentOneUser == InitSpec /\ [][NextRandomEquivalentOneUser]_vars

\* ------------------------------------------------------ the BPR model
\* the arguments fit passes to train, and the default topn of top_predictions
FitEpochs == 10
FitBatchSize == 1000
TopNDefault == 10

InitSpecBPR ==
    /\ InitBPR
    /\ IdleTopK
    /\ IdleTopPop
    /\ IdleTrain
    /\ IdleEval

\* BPRMF_THEANO.fit: train(train_data=R, epochs=10, batch_size=1000).  The
\* factors are created by __init__ only; train continues from the values it
\* finds, and runs no step unless batch_size < epochs * nnz.
fit ==
    /\ Idle
    /\ kind = "BPRMF_THEANO"
    /\ \E R \in {TrainA, TrainB}, f \in FactorStates :
          LET data == check_matrix(R)
              steps == TrainLoopCondition(0, FitBatchSize, FitEpochs * Nnz(data))
          IN  /\ URM_train' = data
              /\ batch_size' = FitBatchSize
              /\ eligibleUsers' = EligibleUsers(data)
              /\ userSeenItems' = UserSeenItems(data)
              /\ W' = IF steps THEN f.W ELSE W
              /\ H' = IF steps THEN f.H ELSE H
              /\ B' = IF steps THEN f.B ELSE B
              /\ ret' = [op |-> "fit", ok |-> TRUE, steps |-> steps]
    /\ UNCHANGED <<kind, W_sparse, normalize, cacheVars, epochs, n_sgd_samples, z,
                   user_id_list, pos_item_id_list, neg_item_id_list, train_pc,
                   topKVars, topPopVars, evalVars, trainSetVars>>

\* BPRMF_THEANO.predictions(user_index)
predictions_call_zeroes_bias ==
    /\ Idle
    /\ kind = "BPRMF_THEANO"
    /\ \E user_index \in Users :
          ret' = [op |-> "predictions", ok |-> TRUE, user_index |-> user_index,
                  value |-> predictions(user_index)]
    /\ B' = [i \in Items |-> 0]
    /\ UNCHANGED <<URM_train, kind, W_sparse, normalize, W, H, cacheVars, trainVars, topKVars,
                   topPopVars, evalVars, trainSetVars>>
predictions_call ==
    /\ Idle
    /\ kind = "BPRMF_THEANO"
    /\ \E user_index \in Users :
          ret' = [op |-> "predictions", ok |-> TRUE, user_index |-> user_index,
                  value |-> predictions(user_index)]
    /\ UNCHANGED <<URM_train, modelVars, cacheVars, trainVars, topKVars, topPopVars, evalVars,
                   trainSetVars>>

\* BPRMF_THEANO.top_predictions(user_index, topn=10, exclude_seen=True);
\* _filter_seen reads URM_train_relevantItems, which only
\* evaluateRecommendations creates
top_predictions_call ==
    /\ Idle
    /\ kind = "BPRMF_THEANO"
    /\ \E user_index \in Users, topn \in {0, MaxN, TopNDefault}, excl \in BOOLEAN :
          ret' = IF recommend_raises(user_index, excl, FALSE)
                 THEN [op |-> "top_predictions", ok |-> FALSE, topn |-> topn,
                       exclude_seen |-> excl]
                 ELSE [op |-> "top_predictions", ok |-> TRUE, topn |-> topn,
                       exclude_seen |-> excl, user_index |-> user_index,
                       value |-> top_predictions(user_index, TRUE, topn, excl)]
    /\ UNCHANGED <<URM_train, modelVars, cacheVars, trainVars, topKVars, topPopVars, evalVars,
                   trainSetVars>>

\* ------------------------------------------------------- label and test
\* unlabeled_list.nonzero(): the stored nonzero entries as (user, item)
\* pairs, row by row
Nonzero(X) ==
    LET cells == [c \in 1 .. NUsers * NItems |-> <<(c - 1) \div NItems, (c - 1) % NItems>>]
    IN  MaskSelect(cells, [c \in 1 .. NUsers * NItems |-> X[cells[c][1]][cells[c][2]] # 0])

\* sorted_filtered_scores[-p_most:]
PMostSlice(sorted, p_most) == PySliceFrom(sorted, 0 - p_most)

\* BPRMF_THEANO.label with score_mode 'user' or 'matrix' (both take
\* filtered_scores[i] from predictions(users[i])[items[i]]): the triplets
\* sorted by (user, item), and the meta dictionary
label(unlabeled_list, binary_ratings, p_most, n_most) ==
    LET pairs == Nonzero(check_matrix(unlabeled_list))
        filtered_scores ==
            [q \in 1 .. Len(pairs) |-> predictions(pairs[q][1])[pairs[q][2] + 1]]
        sorted_filtered_scores == ArgSortScores(filtered_scores)
        p_sorted_scores == PMostSlice(sorted_filtered_scores, p_most)
        n_sorted_scores == PySliceTo(sorted_filtered_scores, n_most)
        scores ==
            [q \in 1 .. Len(p_sorted_scores) |->
                <<pairs[p_sorted_scores[q] + 1][1], pairs[p_sorted_scores[q] + 1][2],
                  IF binary_ratings THEN "1.0" ELSE "5.0">>]
            \o [q \in 1 .. Len(n_sorted_scores) |->
                <<pairs[n_sorted_scores[q] + 1][1], pairs[n_sorted_scores[q] + 1][2],
                  IF binary_ratings THEN "0.0" ELSE "1.0">>]
        order == ArgSort([q \in 1 .. Len(scores) |-> scores[q][1] * NItems + scores[q][2]])
    IN  [triplets |-> [r \in 1 .. Len(scores) |-> scores[order[r] + 1]],
         meta |-> [pos_labels |-> Len(p_sorted_scores),
                   neg_labels |-> Len(n_sorted_scores),
                   total_labels |-> Len(p_sorted_scores) + Len(n_sorted_scores),
                   pos_set |-> {pairs[p_sorted_scores[q] + 1] : q \in 1 .. Len(p_sorted_scores)},
                   neg_set |-> {pairs[n_sorted_scores[q] + 1] : q \in 1 .. Len(n_sorted_scores)},
                   neutral_set |-> {}]]

\* a label call; score_mode 'batch' leaves filtered_scores unbound and the
\* call raises
label_call ==
    /\ Idle
    /\ kind = "BPRMF_THEANO"
    /\ \E unlabeled_list \in TrainMatrices, binary_ratings \in BOOLEAN,
          p_most \in 0 .. MaxN, n_most \in 0 .. MaxN,
          score_mode \in {"user", "batch", "matrix"} :
          ret' = IF score_mode = "batch"
                 THEN [op |-> "label", ok |-> FALSE]
                 ELSE [op |-> "label", ok |-> TRUE, unlabeled_list |-> unlabeled_list,
                       binary_ratings |-> binary_ratings, p_most |-> p_most,
                       n_most |-> n_most,
                       value |-> label(unlabeled_list, binary_ratings, p_most, n_most)]
    /\ UNCHANGED <<URM_train, modelVars, cacheVars, trainVars, topKVars, topPopVars, evalVars,
                   trainSetVars>>

\* the test_data of test: a list of (user_index, item_index) tuples
PairLists == UNION {[1 .. n -> Users \X Items] : n \in 0 .. MaxPairs}

\* _data_to_dict: the items of each user, in order of appearance
DataToDict(data) ==
    [u \in {data[p][1] : p \in 1 .. Len(data)} |->
        MaskSelect([p \in 1 .. Len(data) |-> data[p][2]],
                   [p \in 1 .. Len(data) |-> data[p][1] = u])]

\* the loops of test over the given training sets: per user the number of
\* (positive, negative) comparisons and of those ordered correctly; the mean
\* of the per-user fractions over the users with a comparison, nan
\* (numpy.mean of an empty list) when there is none
AUCTest(test_data, train_users, train_items, train_dict) ==
    LET test_dict == DataToDict(test_data)
        pairs(user) ==
            {pn \in (1 .. Len(test_dict[user])) \X train_items :
                /\ test_dict[user][pn[1]] \in train_items
                /\ pn[2] \notin SeqToSet(test_dict[user])
                /\ pn[2] \notin train_dict[user]}
        correct(user) ==
            {pn \in pairs(user) :
                ScoreLess(predictions(user)[pn[2] + 1],
                          predictions(user)[test_dict[user][pn[1]] + 1])}
        scored == MaskSelect(ARange(NUsers),
                      [p \in 1 .. NUsers |->
                          /\ (p - 1) \in DOMAIN test_dict
                          /\ (p - 1) \in train_users
                          /\ pairs(p - 1) # {}])
        auc_values == [q \in 1 .. Len(scored) |->
                          <<Cardinality(correct(scored[q])), Cardinality(pairs(scored[q]))>>]
    IN  [nan |-> auc_values = << >>,
         mean |-> ScoreQuot(SumScores(auc_values), <<Len(auc_values), 1>>)]

\* BPRMF_THEANO.test
test ==
    /\ Idle
    /\ kind = "BPRMF_THEANO"
    /\ \E test_data \in PairLists :
          ret' = [op |-> "test", ok |-> TRUE, test_data |-> test_data,
                  value |-> AUCTest(test_data, _train_users, _train_items, _train_dict)]
    /\ UNCHANGED <<URM_train, modelVars, cacheVars, trainVars, topKVars, topPopVars, evalVars,
                   trainSetVars>>

NextBPR ==
    \/ train_whole
    \/ fit
    \/ evaluateRecommendations
    \/ predictions_call
    \/ top_predictions_call
    \/ recommend
    \/ recommend_error

SpecBPR == InitSpecBPR /\ [][NextBPR]_vars

NextLabel ==
    \/ train_whole
    \/ fit
    \/ label_call
    \/ test

SpecLabel == InitSpecBPR /\ [][NextLabel]_vars

\* ------------------------------------------------- batch recommendation
\* -numpy.inf as a score
NegInf == <<0 - 1, 0>>

\* the exception recommendBatch raises, "none" when it returns.  In order:
\* self.URM_train[...] with URM_train None, self.W_sparse never set,
\* normalize, exclude_seen without relevant_items, and `relevant_items ==
\* None` on an array of several elements where numpy compares elementwise
\* (the truth value of the resulting array is ambiguous)
recommendBatch_error_unnormalized(users, excl, relevant_items, elementwise) ==
    IF URM_train = << >> THEN "TypeError"
    ELSE IF W_sparse = << >> THEN "AttributeError"
    ELSE IF excl /\ ~relevant_items.given THEN "ValueError"
    ELSE "none"
recommendBatch_error(users, excl, relevant_items, elementwise) ==
    IF URM_train = << >> THEN "TypeError"
    ELSE IF W_sparse = << >> THEN "AttributeError"
    ELSE IF normalize THEN "ValueError"
    ELSE IF excl /\ ~relevant_items.given THEN "ValueError"
    ELSE IF excl /\ elementwise /\ Len(users) * NItems > 1 THEN "ValueError"
    ELSE "none"

\* recommendBatch when it returns: scores of the block, -inf where
\* relevant_items != 0, argsort(axis=0) (down each column, over the rows of
\* the block), fliplr, [:, :n]
recommendBatch(users, n_given, n, excl, relevant_items) ==
    LET m == Len(users)
        user_profile_batch == [r \in 1 .. m |-> URM_train[users[r]]]
        score(r, p) ==
            IF excl /\ relevant_items.rows[r][p - 1] # 0 THEN NegInf
            ELSE Score(Dot(user_profile_batch[r], W_sparse, p - 1), 1)
    IN  CHOOSE out \in
            {[r \in 1 .. m |->
                 Truncate(Flip([c \in 1 .. NItems |-> ranking[c][r]]), n_given, n)] :
             ranking \in {[c \in 1 .. NItems |-> ArgSortScores(scores_array[c])] :
                 scores_array \in {[c \in 1 .. NItems |-> [r \in 1 .. m |-> score(r, c)]]}}} :
            TRUE

recommendBatch_call ==
    /\ Idle
    /\ \E users \in UserLists, n_given \in BOOLEAN, n \in 0 .. MaxN, excl \in BOOLEAN,
          given \in BOOLEAN, elementwise \in BOOLEAN :
       \E relevant_items \in {[given |-> given,
                               rows |-> IF given
                                        THEN [r \in 1 .. Len(users) |-> TrainA[users[r]]]
                                        ELSE << >>]} :
       \E error \in {recommendBatch_error(users, excl, relevant_items, elementwise)} :
          /\ n_given \/ n = 0
          /\ ret' = IF error # "none"
                    THEN [op |-> "recommendBatch", ok |-> FALSE, error |-> error,
                          exclude_seen |-> excl, relevant_items |-> relevant_items]
                    ELSE [op |-> "recommendBatch", ok |-> TRUE, error |-> error,
                          exclude_seen |-> excl, relevant_items |-> relevant_items,
                          users |-> users, n_given |-> n_given, n |-> n,
                          value |-> recommendBatch(users, n_given, n, excl, relevant_items)]
    /\ UNCHANGED <<URM_train, modelVars, cacheVars, trainVars, topKVars, topPopVars, evalVars,
                   trainSetVars>>

\* usersToEvaluate[user_first_id:user_last_id] of batch current_batch
BatchChunk(users, current_batch, bs) ==
    LET user_first_id == current_batch * bs
        user_last_id == Min((current_batch + 1) * bs - 1, Len(users) - 1)
    IN  SubSeq(users, PyIndex(user_first_id, Len(users)) + 1,
               PyIndex(user_last_id, Len(users)))

\* the per-user metrics evaluateRecommendationsBatch accumulates from batch
\* current_batch on: the rows of recommended_items_batch against the dense
\* rows of the test matrix
RECURSIVE BatchResults(_, _, _, _, _, _)
BatchResults(users, current_batch, bs, testData, at_in, excl) ==
    IF current_batch >= (Len(users) \div bs) + 1 THEN << >>
    ELSE LET chunk == BatchChunk(users, current_batch, bs)
             relevant_items_batch == [r \in 1 .. Len(chunk) |-> testData[chunk[r]]]
             recommended_items_batch ==
                 recommendBatch(chunk, TRUE, at_in, excl,
                                [given |-> TRUE, rows |-> relevant_items_batch])
             dense(r) == [p \in 1 .. NItems |-> relevant_items_batch[r][p - 1] \div 2]
         IN  [r \in 1 .. Len(chunk) |->
                 UserMetrics(recommended_items_batch[r], dense(r), dense(r), at_in)]
             \o BatchResults(users, current_batch + 1, bs, testData, at_in, excl)

\* evaluateRecommendationsBatch.  n_eval is a local; it is reported with the
\* result.  The call raises when URM_train is None and when recommendBatch
\* raises on a chunk; self.URM_train is assigned before the loop.
evaluateRecommendationsBatch ==
    /\ Idle
    /\ \E T \in TestMatrices, at_in \in {MaxN}, minRatingsPerUser \in 1 .. 2,
          excl \in BOOLEAN, bs \in 1 .. MaxBatch, elementwise \in BOOLEAN :
       \E testData \in {check_matrix(T.data)} :
       \E users \in {MaskSelect(ARange(Cardinality(DOMAIN testData)),
                         [p \in 1 .. Cardinality(DOMAIN testData) |->
                             RowNnz(testData, p - 1) >= minRatingsPerUser])} :
       \E raises \in {\/ URM_train = << >>
                      \/ \E b \in 0 .. (Len(users) \div bs) :
                            recommendBatch_error(BatchChunk(users, b, bs), excl,
                                [given |-> TRUE], elementwise) # "none"} :
          /\ URM_train' = IF URM_train = << >> THEN URM_train ELSE check_matrix(URM_train)
          /\ ret' = IF raises
                    THEN [op |-> "evaluateRecommendationsBatch", ok |-> FALSE]
                    ELSE LET results == BatchResults(users, 0, bs, testData, at_in, excl)
                         IN  [op |-> "evaluateRecommendationsBatch", ok |-> TRUE,
                              usersToEvaluate |-> users, batch_size |-> bs,
                              n_eval |-> Len(results),
                              value |-> AverageMetrics(results)]
    /\ UNCHANGED <<modelVars, cacheVars, trainVars, topKVars, topPopVars, evalVars, trainSetVars>>


\* ------------------------------------------------------ every operation
\* The operations of a recommender object of either kind.  An operation is
\* called on the object as construction, fit / train and
\* evaluateRecommendations calls have left it, or while a parallel
\* evaluation is in flight; the other operations assign no field that a
\* later call reads (evaluateRecommendationsBatch assigns URM_train the
\* float32 copy evaluateRecommendations assigns too), so no call is made
\* after one of them has returned.
CallAllowed == ret.op \in {"__init__", "fit", "train", "evaluateRecommendations"} \/ ~Idle

\* the batch operations of a similarity recommender, called on the object as
\* construction, fit and evaluateRecommendationsBatch (which assigns
\* URM_train) have left it
NextBatch ==
    \/ (CallAllowed \/ ret.op = "evaluateRecommendationsBatch") /\ fit_similarity
    \/ (CallAllowed \/ ret.op = "evaluateRecommendationsBatch") /\ train_whole
    \/ (CallAllowed \/ ret.op = "evaluateRecommendationsBatch") /\ recommendBatch_call
    \/ (CallAllowed \/ ret.op = "evaluateRecommendationsBatch") /\ evaluateRecommendationsBatch

SpecBatch == InitSpec /\ [][NextBatch]_vars

NextObject ==
    \/ CallAllowed /\ fit_similarity
    \/ CallAllowed /\ train_whole
    \/ CallAllowed /\ fit
    \/ CallAllowed /\ evaluateRecommendations
    \/ CallAllowed /\ evaluateRecommendations_untrained
    \/ CallAllowed /\ recommend
    \/ CallAllowed /\ recommend_error
    \/ CallAllowed /\ predictions_call
    \/ CallAllowed /\ top_predictions_call
    \/ CallAllowed /\ label_call
    \/ CallAllowed /\ test
    \/ CallAllowed /\ recommendBatch_call
    \/ CallAllowed /\ evaluateRecommendationsSequential
    \/ CallAllowed /\ evaluateRecommendationsSequential_error
    \/ CallAllowed /\ evaluateRecommendationsParallel_map
    \/ CallAllowed /\ evaluateOneUser_task
    \/ CallAllowed /\ evaluateOneUser_raise
    \/ CallAllowed /\ evaluateRecommendationsParallel_reduce
    \/ CallAllowed /\ evaluateRecommendationsRandomEquivalent
    \/ CallAllowed /\ evaluateRecommendationsRandomEquivalent_oneUser
    \/ CallAllowed /\ evaluateRecommendationsBatch

SpecObject == InitSpec /\ [][NextObject]_vars

\* ----------------------------------------------------------------- claims
ColNonzeros(col) == {p \in 1 .. Len(col) : col[p] # 0}

\* the claim of C1 for one input column, its output column and K
TopKColumnContract(col, out, kk) ==
    /\ Cardinality(ColNonzeros(out)) <= kk
    /\ Cardinality(ColNonzeros(out)) = Min(kk, Cardinality(ColNonzeros(col)))
    /\ \A p \in ColNonzeros(out) : out[p] = col[p]
    /\ \A p \in ColNonzeros(out) : \A q \in ColNonzeros(col) \ ColNonzeros(out) :
           col[p] >= col[q]

\* C1: for every square matrix (dense or sparse) and every K >= 0 each column
\* of the result of similarityMatrixTopK has at most K nonzero entries, they
\* are the K largest values of the input column (all of them when it has
\* fewer than K nonzeros), every retained value equals its input value, and
\* the column [0.1, 0.9, 0.4, 0.2] with K = 1 becomes [0, 0.9, 0, 0].
C1_TopKContract ==
    /\ topK_pc = "done" =>
          \A c \in TopKIdx :
              TopKColumnContract(Column(item_weights, TopKDim, c),
                                 Column(W_topK, TopKDim, c), k)
    /\ DenseColumnTopK(<<2, 18, 8, 4>>, 1) = <<0, 18, 0, 0>>
    /\ SparseColumnTopK(<<2, 18, 8, 4>>, 1) = <<0, 18, 0, 0>>

StrictlyIncreasing(s) == \A p \in 1 .. (Len(s) - 1) : s[p] < s[p + 1]

\* C2: removeTopPop returns len(removed) = floor(P * n_items),
\* len(mapping) + len(removed) = n_items and a strictly increasing mapping.
C2_TopPopCounts ==
    topPop_pc = "done" =>
        LET removed == Len(topPop_ret.removedItems)
            mapped  == Len(topPop_ret.itemMappings)
        IN  /\ removed * PDen <= NItems * percentageToRemove
            /\ NItems * percentageToRemove < (removed + 1) * PDen
            /\ mapped + removed = NItems
            /\ StrictlyIncreasing(topPop_ret.itemMappings)

C2_Witness ==
    /\ topPop_pc = "done"
    /\ Len(topPop_ret.removedItems) >= 1
    /\ Len(topPop_ret.itemMappings) >= 2
    /\ percentageToRemove * NItems % PDen # 0

\* C9: train performs exactly epochs * nnz(train_data) / batch_size SGD steps,
\* also when epochs * nnz is an exact multiple of batch_size.
C9_TrainStepCount ==
    train_pc = "done" => z = (epochs * Nnz(URM_train)) \div batch_size

\* C10: every triplet sampleBatch returns has an eligible user, a positive
\* item of that user's training row and a negative item outside it, and the
\* three lists have length batch_size.
C10_SampleBatchTriplets ==
    train_pc = "batch" =>
        /\ Len(user_id_list) = batch_size
        /\ Len(pos_item_id_list) = batch_size
        /\ Len(neg_item_id_list) = batch_size
        /\ \A p \in 1 .. batch_size :
               /\ \E i \in Items : URM_train[user_id_list[p]][i] # 0
               /\ URM_train[user_id_list[p]][pos_item_id_list[p]] # 0
               /\ URM_train[user_id_list[p]][neg_item_id_list[p]] = 0

C10_Witness ==
    /\ train_pc = "batch"
    /\ batch_size >= 2
    /\ user_id_list[1] # user_id_list[2]
    /\ z >= 1

\* the scores the last recommend call ranked by
RecommendScores ==
    IF kind = "BPRMF_THEANO" THEN predictions(ret.user_id)
    ELSE SimilarityScores(URM_train_user_profile[ret.user_id])

RecommendReturned == ret.op = "recommend" /\ ret.ok

\* C3: recommend returns at most N items, and with exclude_seen none of them
\* is a nonzero column of the user's row of the training matrix.
C3_RecommendAtMostNUnseen ==
    RecommendReturned =>
        /\ ret.n_given => Len(ret.value) <= ret.n
        /\ ret.exclude_seen =>
               \A p \in 1 .. Len(ret.value) : URM_train[ret.user_id][ret.value[p]] = 0

\* C4 as stated: the items recommend returns are in strictly descending
\* order of score.
C4_StrictlyDescending ==
    RecommendReturned =>
        \A p \in 1 .. (Len(ret.value) - 1) :
            ScoreLess(RecommendScores[ret.value[p + 1] + 1], RecommendScores[ret.value[p] + 1])

\* C4 as amended: the items recommend returns are in non-increasing order of
\* score (equal scores may be adjacent), also after filtering and truncation.
C4_NonIncreasing ==
    RecommendReturned =>
        \A p \in 1 .. (Len(ret.value) - 1) :
            ~ScoreLess(RecommendScores[ret.value[p] + 1], RecommendScores[ret.value[p + 1] + 1])

C4_Witness ==
    /\ RecommendReturned
    /\ ret.exclude_seen
    /\ ret.n_given
    /\ Len(ret.value) >= 2
    /\ URM_train_relevantItems[ret.user_id] # << >>
    /\ ScoreLess(RecommendScores[ret.value[2] + 1], RecommendScores[ret.value[1] + 1])

\* C5: with fast validation requested, evaluateRecommendations rebuilds the
\* cache exactly when it was never built or the test matrix differs in shape
\* or values from the one of the previous call.
C5_CacheRebuiltIffChanged ==
    (ret.op = "evaluateRecommendations" /\ ret.ok /\ ret.fastValidation) =>
        (ret.rebuilt <=> (ret.first \/ ~ret.unchanged))

\* C6: every call of the evaluation entry point returns a mapping with
\* exactly the six keys AUC, precision, recall, map, NDCG, MRR.
C6_EntryPointReturnsSixKeys ==
    (ret.op = "evaluateRecommendations" /\ ret.ok) => DOMAIN ret.value = ResultKeys

\* C7: sequential evaluation and worker-parallel evaluation over the same
\* model, the same cache and the same list of users return the same six
\* metrics, whatever the order in which the per-user tasks completed.
C7_SequentialEqualsParallel ==
    (ret.op = "evaluateRecommendationsParallel" /\ ret.ok) =>
        /\ ~SequentialRaises(ret.users)
        /\ SameMetrics(ret.value, SequentialResult(ret.users))

RandomEquivalentReturned ==
    ret.op = "evaluateRecommendationsRandomEquivalent" /\ ret.ok

\* recall = total hits / total nonzero test entries, and the hits do not
\* exceed the number of (user, item) test pairs
RecallIsHitsOverPairs ==
    /\ ScoreEq(ret.value["recall"],
               <<ret.evaluateRecommendationsRandomEquivalent_hit, Nnz(URM_test)>>)
    /\ ret.evaluateRecommendationsRandomEquivalent_hit <= Nnz(URM_test)

NoUserTwice(users) == \A p, q \in 1 .. Len(users) : users[p] = users[q] => p = q

C11_FitRetrainsFromScratch ==
    (ret.op = "fit" /\ ~ret.steps) => B = FactorsInit.B

\* C12: predictions, top_predictions and recommend called with their default
\* arguments (exclude_seen = True) return a result in every state
C12_QueryableAtAnyPoint ==
    /\ ret.op = "predictions" => ret.ok
    /\ (ret.op \in {"top_predictions", "recommend"} /\ ret.exclude_seen) => ret.ok

\* C13: a recommendBatch call on a recommender with normalize set, or with
\* exclude_seen and no relevant_items, raises (ValueError when the
\* recommender is fitted) and leaves the recommender's state as it was
C13_RecommendBatchFailsExplicitly ==
    [][(/\ ret'.op = "recommendBatch"
        /\ normalize \/ (ret'.exclude_seen /\ ~ret'.relevant_items.given))
       => /\ ~ret'.ok
          /\ (URM_train # << >> /\ W_sparse # << >>) => ret'.error = "ValueError"
          /\ UNCHANGED <<URM_train, modelVars, cacheVars, trainVars, trainSetVars>>]_vars

C13_Witness ==
    /\ ret.op = "recommendBatch"
    /\ ~ret.ok
    /\ ret.error = "ValueError"
    /\ ~normalize
    /\ ret.exclude_seen
    /\ ~ret.relevant_items.given

\* C19: batch evaluation accumulates every evaluable user exactly once:
\* n_eval is the number of evaluable users
C19_BatchCoversEveryUser ==
    (ret.op = "evaluateRecommendationsBatch" /\ ret.ok)
        => ret.n_eval = Len(ret.usersToEvaluate)

\* C20: each row recommendBatch returns is the descending-score ranking of
\* its user; with exclude_seen, seen items come after the unseen ones
C20_RecommendBatchRanksPerUser ==
    (ret.op = "recommendBatch" /\ ret.ok) =>
        \A r \in 1 .. Len(ret.users) :
            IF ret.exclude_seen
            THEN \A p, q \in 1 .. Len(ret.value[r]) :
                    (/\ ret.relevant_items.rows[r][ret.value[r][p]] # 0
                     /\ ret.relevant_items.rows[r][ret.value[r][q]] = 0) => q < p
            ELSE ret.value[r] =
                     Truncate(RankDescending(SimilarityScores(URM_train[ret.users[r]])),
                              ret.n_given, ret.n)

\* the training sets of the claim of C16: the users, the items and the seen
\* items of each user in the matrix train stored
C16_ExpectedAUC ==
    AUCTest(ret.test_data,
            {u \in Users : RowNnz(URM_train, u) > 0},
            {i \in Items : \E u \in Users : URM_train[u][i] # 0},
            [u \in Users |-> SeqToSet(RowIndices(URM_train, u))])

\* C16: test called after train returns the mean, over the test users seen
\* in training, of the fraction of (held-out positive, unseen training item)
\* pairs that the scores order correctly
C16_HeldOutAUC ==
    (ret.op = "test" /\ URM_train # << >>) =>
        /\ ret.value.nan = C16_ExpectedAUC.nan
        /\ ScoreEq(ret.value.mean, C16_ExpectedAUC.mean)

\* C17: label selects the p_most highest-scored pairs as positives and the
\* n_most lowest-scored as negatives (as many as there are pairs, at most),
\* reports their counts, labels them with the maximum / minimum rating of the
\* mode and returns the triplets sorted by (user, item)
C17_LabelSelectsPMostNMost ==
    (ret.op = "label" /\ ret.ok) =>
        LET pairs == SeqToSet(Nonzero(ret.unlabeled_list))
            score(pr) == predictions(pr[1])[pr[2] + 1]
            pos == ret.value.meta.pos_set
            neg == ret.value.meta.neg_set
            t == ret.value.triplets
        IN  /\ pos \subseteq pairs
            /\ neg \subseteq pairs
            /\ Cardinality(pos) = Min(ret.p_most, Cardinality(pairs))
            /\ Cardinality(neg) = Min(ret.n_most, Cardinality(pairs))
            /\ \A a \in pos, b \in pairs \ pos : ~ScoreLess(score(a), score(b))
            /\ \A a \in neg, b \in pairs \ neg : ~ScoreLess(score(b), score(a))
            /\ ret.value.meta.pos_labels = Cardinality(pos)
            /\ ret.value.meta.neg_labels = Cardinality(neg)
            /\ {<<t[q][1], t[q][2]>> : q \in {r \in 1 .. Len(t) :
                     t[r][3] = IF ret.binary_ratings THEN "1.0" ELSE "5.0"}} = pos
            /\ {<<t[q][1], t[q][2]>> : q \in {r \in 1 .. Len(t) :
                     t[r][3] = IF ret.binary_ratings THEN "0.0" ELSE "1.0"}} = neg
            /\ \A q \in 1 .. (Len(t) - 1) :
                   t[q][1] * NItems + t[q][2] <= t[q + 1][1] * NItems + t[q + 1][2]

\* every eligible user of the running train has a catalog item outside
\* their seen set
EveryEligibleUserHasUnseen ==
    \A u \in SeqToSet(eligibleUsers) : SeqToSet(userSeenItems[u]) # Items

\* the rejection loop draws for a user who has seen the whole catalog
RejectionLoopOfFullUser ==
    train_pc = "neg" /\ SeqToSet(userSeenItems[CurrentUser]) = Items

\* C15: under fair draws train returns whenever every eligible user has an
\* unseen item; and once the rejection loop draws for a user who has seen
\* every item, it never ends and train never returns
C15_TrainTerminatesOrStalls ==
    /\ (train_pc # "call" /\ EveryEligibleUserHasUnseen) ~> (train_pc = "done")
    /\ [](RejectionLoopOfFullUser => [](train_pc = "neg"))

C15_Witness ==
    /\ train_pc = "done"
    /\ z >= 1
    /\ eligibleUsers # << >>
    /\ EveryEligibleUserHasUnseen

\* C18: for each test item of a user a hit is counted exactly when the item
\* is in the candidate list restricted to the item and its random items,
\* and the random items are neither test items nor training items of the
\* user
C18_RandomEquivalentHits ==
    ret.op = "evaluateRecommendationsRandomEquivalent_oneUser" =>
        \A q \in 1 .. Len(ret.loop) :
            /\ (ret.loop[q].hit = 1)
                   <=> (ret.loop[q].test_item \in SeqToSet(ret.loop[q].ranking))
            /\ (ret.loop[q].other_items \ {ret.loop[q].test_item})
                   \cap (SeqToSet(URM_test_relevantItems[ret.test_user])
                            \union SeqToSet(URM_train_relevantItems[ret.test_user])) = {}

\* C14: a step that changes the weight matrix or the factors W, H, B is a
\* step of fit or train; no evaluation or query operation changes them
C14_ScoringStateReadOnly ==
    [][<<W_sparse, W, H, B>>' # <<W_sparse, W, H, B>> => ret'.op \in {"fit", "train"}]_vars

C14_Witness ==
    /\ ret.op \in {"evaluateRecommendationsSequential", "evaluateRecommendationsBatch",
                    "evaluateRecommendationsRandomEquivalent", "label", "test",
                    "predictions", "recommendBatch"}
    /\ ret.ok
    /\ W_sparse # << >> \/ B # FactorsInit.B

\* C21: after an evaluation call the cache holds, for every user of the test
\* matrix given, the column indices and the values of the nonzero entries of
\* the user's test row, and the column indices of the nonzero entries of the
\* user's row of the training matrix, whatever the layout of the test matrix
C21_CacheHoldsRows ==
    (ret.op = "evaluateRecommendations" /\ ret.ok) =>
        /\ DOMAIN URM_test_relevantItems = DOMAIN last_URM_test.data
        /\ DOMAIN URM_test_ratings = DOMAIN last_URM_test.data
        /\ DOMAIN URM_train_relevantItems = DOMAIN last_URM_test.data
        /\ \A u \in DOMAIN last_URM_test.data :
              /\ URM_test_relevantItems[u] = RowIndices(last_URM_test.data, u)
              /\ URM_test_ratings[u] =
                     [q \in 1 .. RowNnz(last_URM_test.data, u) |->
                         last_URM_test.data[u][RowIndices(last_URM_test.data, u)[q]]]
              /\ URM_train_relevantItems[u] = RowIndices(URM_train, u)

\* C22: after an evaluation call that follows any fit / train and evaluation
\* calls, the cached training profile and the cached seen items of every
\* cached user are the user's row of the current training matrix
C22_CacheFollowsTraining ==
    (ret.op = "evaluateRecommendations" /\ ret.ok) =>
        \A u \in DOMAIN URM_train_user_profile :
            /\ URM_train_user_profile[u] = URM_train[u]
            /\ URM_train_relevantItems[u] = RowIndices(URM_train, u)

\* C23: the matrix similarityMatrixTopK returns on one path (dense or sparse
\* input) is the matrix the other path returns for the same numbers and K
C23_DenseAgreesWithSparse ==
    topK_pc = "done" =>
        W_topK = IF sparse_weights_in THEN TopKDense(item_weights, TopKDim, k)
                 ELSE TopKSparse(item_weights, TopKDim, k)

\* C24: in the result of label the selected positive pairs and the selected
\* negative pairs are disjoint and no (user, item) pair occurs in two of the
\* returned triplets, whatever the pool size, p_most and n_most
C24_LabelSetsDisjoint ==
    (ret.op = "label" /\ ret.ok) =>
        /\ ret.value.meta.pos_set \cap ret.value.meta.neg_set = {}
        /\ \A a, b \in 1 .. Len(ret.value.triplets) :
              (a # b) => <<ret.value.triplets[a][1], ret.value.triplets[a][2]>>
                             # <<ret.value.triplets[b][1], ret.value.triplets[b][2]>>

====
